---------------------------- MODULE Spec2Model ----------------------------
(***************************************************************************)
(* MarketDataProcessor (src/core/src/market_data/processor.rs).            *)
(*                                                                         *)
(* A bounded crossbeam channel carries MarketMessage values from           *)
(* submit_message to the thread spawned by start_processing, which applies *)
(* each message to a HashMap<String, SymbolData> behind one std Mutex and  *)
(* then bumps an atomic counter.  Readers take the same Mutex.             *)
(*                                                                         *)
(* f64 values are modelled as integers with a significand of MantBits bits *)
(* and round-to-nearest-even addition (f64 has 53 bits; the width is       *)
(* scaled down so that the rounding cases fit the explored inputs).        *)
(***************************************************************************)
EXTENDS Integers, Sequences, FiniteSets, TLC

VARIABLES
    alive,          \* the MarketDataProcessor value (sender + receiver) exists
    buffer_size,    \* capacity handed to bounded() in new()
    queue,          \* messages buffered in the channel
    ppc, pmsg,      \* producer threads: position in submit_message, its argument
    wpc, wmsg,      \* worker threads: position in the spawned closure, its message
    lock,           \* holder of the symbol_data Mutex
    poisoned,       \* poison flag of the symbol_data Mutex
    symbol_data,    \* the HashMap<String, SymbolData>
    message_count,  \* the AtomicUsize
    rpc, rq, rres,  \* reader threads: position in a query, its arguments, its result
    rprev,          \* reader threads: the previous call that returned, and its result
    accepted,       \* history: messages whose send() returned Ok, in order
    taken,          \* history: messages a worker received, in order
    applied         \* history: trades whose critical section completed, in order

vars == << alive, buffer_size, queue, ppc, pmsg, wpc, wmsg, lock, poisoned,
           symbol_data, message_count, rpc, rq, rres, rprev, accepted, taken, applied >>

---------------------------------------------------------------------------
(* Bounds of the explored instance *)

MaxMsgs == 2        \* submit_message calls in one run
MaxCap == 2         \* largest buffer_size tried
MantBits == 2       \* significand width of the scaled-down f64

(* Program constant: timestamp / 1_000_000 *)
NsPerMs == 1000000

Producers == {"p1"}
Workers == {"w1", "w2"}
Readers == {"r1"}
Symbols == {"X", "Y"}
Free == "free"

---------------------------------------------------------------------------
(* Option<T> *)

None == << >>
Some(v) == << v >>
IsSome(o) == Len(o) = 1
Unwrap(o) == o[1]

---------------------------------------------------------------------------
(* f64 addition *)

RECURSIVE Pow2(_)
Pow2(n) == IF n = 0 THEN 1 ELSE 2 * Pow2(n - 1)

\* spacing of representable values around magnitude x
RECURSIVE UlpOf(_, _)
UlpOf(x, u) == IF x < u * Pow2(MantBits) THEN u ELSE UlpOf(x, 2 * u)

\* round a non-negative real (here an integer) to nearest, ties to even
RoundNat(x) ==
    LET u == UlpOf(x, 1)
        q == x \div u
        r == x % u
    IN  IF 2 * r < u THEN q * u
        ELSE IF 2 * r > u THEN (q + 1) * u
        ELSE IF q % 2 = 0 THEN q * u ELSE (q + 1) * u

F64Add(a, b) ==
    LET s == a + b IN IF s >= 0 THEN RoundNat(s) ELSE 0 - RoundNat(0 - s)

\* `x += quantity` on an f64 field
Assign(old, q) == q

AddAssign(old, q) == F64Add(old, q)

---------------------------------------------------------------------------
(* MarketMessage.  order_id, is_buy and trade_id are never read by the     *)
(* processor and are left out.                                             *)

Msg(ts, sym, ty, p, q) ==
    [timestamp_ns |-> ts, symbol |-> sym, message_type |-> ty, price |-> p, quantity |-> q]

Big == Pow2(MantBits)   \* smallest value whose successor is not representable

Messages ==
    { Msg(1000000, "X", "Trade", Some(10), Some(Big)),
      Msg(1999999, "X", "Trade", Some(11), Some(1)),
      Msg(2000000, "X", "Trade", Some(12), Some(1)),
      Msg(2000000, "Y", "Trade", Some(20), Some(-1)),
      Msg(1000000, "X", "Trade", None, Some(1)),
      Msg(2000000, "Y", "Trade", Some(21), None),
      Msg(1000000, "Y", "Add", Some(22), Some(1)),
      Msg(2000000, "X", "Modify", Some(13), None),
      Msg(1000000, "X", "Cancel", None, None) }

NoMsg == Msg(0, "", "None", None, None)

---------------------------------------------------------------------------
(* SymbolData and the map *)

NoData == [present |-> FALSE, last_price |-> 0, daily_volume |-> 0,
           last_update_time |-> 0, price_history |-> << >>, volume_history |-> << >>]

\* or_insert_with(|| SymbolData { 0.0, 0.0, 0, BTreeMap::new(), BTreeMap::new() })
FreshData == [NoData EXCEPT !.present = TRUE]

\* BTreeMap::insert
MapInsert(m, k, v) == [x \in (DOMAIN m) \cup {k} |-> IF x = k THEN v ELSE m[x]]

\* *map.entry(k).or_insert(0.0)
EntryOrZero(m, k) == IF k \in DOMAIN m THEN m[k] ELSE 0

BucketOfMicros(ts) == ts \div 1000

BucketOf(ts) == ts \div NsPerMs

---------------------------------------------------------------------------
(* Queries *)

QueryBuckets == 1..2

Queries ==
    { [op |-> o, symbol |-> s, start_time |-> 0, end_time |-> 0] :
        o \in {"get_last_price", "get_daily_volume"}, s \in Symbols }
    \cup
    { [op |-> "get_price_history", symbol |-> s, start_time |-> a, end_time |-> b] :
        s \in Symbols, a \in QueryBuckets, b \in QueryBuckets }

NoQuery == [op |-> "none", symbol |-> "", start_time |-> 0, end_time |-> 0]

NoResult == [kind |-> "none", opt |-> None, vec |-> << >>]
Panicked == [kind |-> "panic", opt |-> None, vec |-> << >>]
OptResult(o) == [kind |-> "opt", opt |-> o, vec |-> << >>]
VecResult(v) == [kind |-> "vec", opt |-> None, vec |-> v]

\* no earlier call has returned to this caller
NoPrev == [q |-> NoQuery, res |-> NoResult, seen |-> 0]

\* membership in the RangeInclusive start..=end
InRangeExclusiveEnd(k, s, e) == s <= k /\ k < e

InRange(k, s, e) == s <= k /\ k <= e

SetMin(S) == CHOOSE k \in S : \A j \in S : k <= j

\* the BTreeMap iterator: keys in ascending order, mapped to (k, v), collected
RECURSIVE CollectAscending(_, _)
CollectAscending(m, ks) ==
    IF ks = {} THEN << >>
    ELSE LET k == SetMin(ks)
         IN  << <<k, m[k]>> >> \o CollectAscending(m, ks \ {k})

\* BTreeMap::range panics when start > end (checked once the tree has a root)
RangePanics(m, s, e) == s > e /\ DOMAIN m # {}

BTreeRange(m, s, e) == CollectAscending(m, {k \in DOMAIN m : InRange(k, s, e)})

---------------------------------------------------------------------------
(* Channel and Mutex *)

\* a worker that still owns its clone of the receiver
Running(w) == wpc[w] \notin {"unstarted", "done", "panicked"}

\* some Receiver exists: the processor's own, or a running worker's clone
ReceiverExists == alive \/ \E w \in Workers : Running(w)

\* bounded channel: send() proceeds only while there is room
HasRoomOffByOne(q) == Len(q) <= buffer_size

HasRoom(q) == Len(q) < buffer_size

\* the receiver yields the oldest buffered message
RecvIndexNewest(q) == Len(q)

RecvIndex(q) == 1

RemoveAt(q, i) == SubSeq(q, 1, i - 1) \o SubSeq(q, i + 1, Len(q))

\* Mutex::lock() returns only when no other thread holds the guard
CanAcquireUnguarded(t) == TRUE

CanAcquire(t) == lock = Free

\* the match in process_message: only a Trade with both price and quantity is applied
DispatchTradeOnly(m) == IF m.message_type = "Trade" /\ IsSome(m.price) THEN "apply" ELSE "skip"

Dispatch(m) ==
    IF m.message_type = "Trade" /\ IsSome(m.price) /\ IsSome(m.quantity)
    THEN "apply" ELSE "skip"

\* `Some(quantity)` binding; 0 stands in where a pattern would not have matched
Bound(o) == IF IsSome(o) THEN Unwrap(o) ELSE 0

---------------------------------------------------------------------------
Init ==
    /\ alive = TRUE
    /\ buffer_size \in 1..MaxCap
    /\ queue = << >>
    /\ ppc = [p \in Producers |-> "idle"]
    /\ pmsg = [p \in Producers |-> NoMsg]
    /\ wpc = [w \in Workers |-> "unstarted"]
    /\ wmsg = [w \in Workers |-> NoMsg]
    /\ lock = Free
    /\ poisoned = FALSE
    /\ symbol_data = [s \in Symbols |-> NoData]
    /\ message_count = 0
    /\ rpc = [r \in Readers |-> "idle"]
    /\ rq = [r \in Readers |-> NoQuery]
    /\ rres = [r \in Readers |-> NoResult]
    /\ accepted = << >>
    /\ taken = << >>
    /\ applied = << >>
    /\ rprev = [r \in Readers |-> NoPrev]

---------------------------------------------------------------------------
(* submit_message *)

InCall == Cardinality({p \in Producers : ppc[p] = "send"})

\* submit_message(message): sender.send(message) returns Err when every receiver
\* is gone and Ok once the message is in the channel; on a full channel the
\* calling thread blocks inside send() until there is room
SubmitCall(p, m) ==
    /\ alive
    /\ ppc[p] = "idle"
    /\ Len(accepted) + InCall < MaxMsgs
    /\ IF ~ReceiverExists
       THEN UNCHANGED << queue, accepted, ppc, pmsg >>
       ELSE IF HasRoom(queue)
       THEN /\ queue' = Append(queue, m)
            /\ accepted' = Append(accepted, m)
            /\ UNCHANGED << ppc, pmsg >>
       ELSE /\ ppc' = [ppc EXCEPT ![p] = "send"]
            /\ pmsg' = [pmsg EXCEPT ![p] = m]
            /\ UNCHANGED << queue, accepted >>
    /\ UNCHANGED << alive, buffer_size, wpc, wmsg, lock, poisoned, symbol_data,
                    message_count, rpc, rq, rres, taken, applied, rprev >>

\* a blocked send() wakes up: room has appeared, or the last receiver has gone
SendReturn(p) ==
    /\ ppc[p] = "send"
    /\ IF ~ReceiverExists
       THEN UNCHANGED << queue, accepted >>
       ELSE /\ HasRoom(queue)
            /\ queue' = Append(queue, pmsg[p])
            /\ accepted' = Append(accepted, pmsg[p])
    /\ ppc' = [ppc EXCEPT ![p] = "idle"]
    /\ pmsg' = [pmsg EXCEPT ![p] = NoMsg]
    /\ UNCHANGED << alive, buffer_size, wpc, wmsg, lock, poisoned, symbol_data,
                    message_count, rpc, rq, rres, taken, applied, rprev >>

---------------------------------------------------------------------------
(* start_processing and the spawned closure *)

Start(w) ==
    /\ alive
    /\ wpc[w] = "unstarted"
    /\ wpc' = [wpc EXCEPT ![w] = "recv"]
    /\ UNCHANGED << alive, buffer_size, queue, ppc, pmsg, wmsg, lock, poisoned,
                    symbol_data, message_count, rpc, rq, rres, accepted, taken, applied, rprev >>

\* `for message in receiver`: the next message is taken
RecvCounting(w) ==
    /\ wpc[w] = "recv"
    /\ queue # << >>
    /\ LET i == RecvIndex(queue)
       IN  /\ wmsg' = [wmsg EXCEPT ![w] = queue[i]]
           /\ taken' = Append(taken, queue[i])
           /\ queue' = RemoveAt(queue, i)
    /\ message_count' = message_count + 1
    /\ wpc' = [wpc EXCEPT ![w] = "process"]
    /\ UNCHANGED << alive, buffer_size, ppc, pmsg, lock, poisoned, symbol_data,
                    rpc, rq, rres, accepted, applied, rprev >>

Recv(w) ==
    /\ wpc[w] = "recv"
    /\ queue # << >>
    /\ LET i == RecvIndex(queue)
       IN  /\ wmsg' = [wmsg EXCEPT ![w] = queue[i]]
           /\ taken' = Append(taken, queue[i])
           /\ queue' = RemoveAt(queue, i)
    /\ wpc' = [wpc EXCEPT ![w] = "process"]
    /\ UNCHANGED << alive, buffer_size, ppc, pmsg, lock, poisoned, symbol_data,
                    message_count, rpc, rq, rres, accepted, applied, rprev >>

\* `for message in receiver`: the channel is empty and every sender is dropped
Exit(w) ==
    /\ wpc[w] = "recv"
    /\ queue = << >>
    /\ ~alive
    /\ wpc' = [wpc EXCEPT ![w] = "done"]
    /\ UNCHANGED << alive, buffer_size, queue, ppc, pmsg, wmsg, lock, poisoned,
                    symbol_data, message_count, rpc, rq, rres, accepted, taken, applied, rprev >>

\* process_message up to symbol_data.lock().unwrap(): a skipped message returns at
\* once; a trade waits for the Mutex, and panics if the Mutex is poisoned
Process(w) ==
    /\ wpc[w] = "process"
    /\ IF Dispatch(wmsg[w]) = "skip"
       THEN /\ wpc' = [wpc EXCEPT ![w] = "count"]
            /\ UNCHANGED << lock, wmsg >>
       ELSE /\ CanAcquire(w)
            /\ IF poisoned
               THEN /\ wpc' = [wpc EXCEPT ![w] = "panicked"]
                    /\ wmsg' = [wmsg EXCEPT ![w] = NoMsg]
                    /\ UNCHANGED lock
               ELSE /\ wpc' = [wpc EXCEPT ![w] = "locked"]
                    /\ lock' = w
                    /\ UNCHANGED wmsg
    /\ UNCHANGED << alive, buffer_size, queue, ppc, pmsg, poisoned, symbol_data,
                    message_count, rpc, rq, rres, accepted, taken, applied, rprev >>

\* symbol_data.last_update_time = message.timestamp_ns
MaxUpdateTime(old, ts) == IF ts > old THEN ts ELSE old

NewUpdateTime(old, ts) == ts

\* entry().or_insert_with(..), then last_price, daily_volume, last_update_time
ApplyScalars(w) ==
    /\ wpc[w] = "locked"
    /\ LET m == wmsg[w]
           sd == IF symbol_data[m.symbol].present THEN symbol_data[m.symbol] ELSE FreshData
       IN  symbol_data' = [symbol_data EXCEPT ![m.symbol] =
               [sd EXCEPT !.last_price = Bound(m.price),
                          !.daily_volume = AddAssign(sd.daily_volume, Bound(m.quantity)),
                          !.last_update_time =
                              NewUpdateTime(sd.last_update_time, m.timestamp_ns)]]
    /\ wpc' = [wpc EXCEPT ![w] = "scalars"]
    /\ UNCHANGED << alive, buffer_size, queue, ppc, pmsg, wmsg, lock, poisoned,
                    message_count, rpc, rq, rres, accepted, taken, applied, rprev >>

\* price_history.insert(ms_timestamp, price)
ApplyPrice(w) ==
    /\ wpc[w] = "scalars"
    /\ LET m == wmsg[w]
           sd == symbol_data[m.symbol]
       IN  symbol_data' = [symbol_data EXCEPT ![m.symbol] =
               [sd EXCEPT !.price_history =
                   MapInsert(sd.price_history, BucketOf(m.timestamp_ns), Bound(m.price))]]
    /\ wpc' = [wpc EXCEPT ![w] = "price"]
    /\ UNCHANGED << alive, buffer_size, queue, ppc, pmsg, wmsg, lock, poisoned,
                    message_count, rpc, rq, rres, accepted, taken, applied, rprev >>

\* *volume_history.entry(ms_timestamp).or_insert(0.0) += quantity; the guard drops
ApplyVolumeSkipped(w) ==
    /\ wpc[w] = "price"
    /\ lock' = Free
    /\ applied' = Append(applied, wmsg[w])
    /\ wpc' = [wpc EXCEPT ![w] = "count"]
    /\ UNCHANGED << alive, buffer_size, queue, ppc, pmsg, wmsg, poisoned, symbol_data,
                    message_count, rpc, rq, rres, accepted, taken, rprev >>

ApplyVolume(w) ==
    /\ wpc[w] = "price"
    /\ LET m == wmsg[w]
           sd == symbol_data[m.symbol]
           b == BucketOf(m.timestamp_ns)
       IN  symbol_data' = [symbol_data EXCEPT ![m.symbol] =
               [sd EXCEPT !.volume_history =
                   MapInsert(sd.volume_history, b,
                             AddAssign(EntryOrZero(sd.volume_history, b), Bound(m.quantity)))]]
    /\ lock' = Free
    /\ applied' = Append(applied, wmsg[w])
    /\ wpc' = [wpc EXCEPT ![w] = "count"]
    /\ UNCHANGED << alive, buffer_size, queue, ppc, pmsg, wmsg, poisoned,
                    message_count, rpc, rq, rres, accepted, taken, rprev >>

\* message_count.fetch_add(1)
Count(w) ==
    /\ wpc[w] = "count"
    /\ message_count' = message_count + 1
    /\ wpc' = [wpc EXCEPT ![w] = "recv"]
    /\ wmsg' = [wmsg EXCEPT ![w] = NoMsg]
    /\ UNCHANGED << alive, buffer_size, queue, ppc, pmsg, lock, poisoned, symbol_data,
                    rpc, rq, rres, accepted, taken, applied, rprev >>

---------------------------------------------------------------------------
(* get_last_price / get_daily_volume / get_price_history *)

\* self.symbol_data.lock().unwrap()
QueryCall(r, q) ==
    /\ alive
    /\ rpc[r] = "idle"
    /\ CanAcquire(r)
    /\ IF poisoned
       THEN /\ rres' = [rres EXCEPT ![r] = Panicked]
            /\ rq' = [rq EXCEPT ![r] = NoQuery]
            /\ UNCHANGED << rpc, lock >>
       ELSE /\ rres' = [rres EXCEPT ![r] = NoResult]
            /\ rq' = [rq EXCEPT ![r] = q]
            /\ rpc' = [rpc EXCEPT ![r] = "locked"]
            /\ lock' = r
    /\ UNCHANGED << alive, buffer_size, queue, ppc, pmsg, wpc, wmsg, poisoned,
                    symbol_data, message_count, accepted, taken, applied, rprev >>

\* data.get(symbol) and the value computed from it
QueryValueDefault(sd, q) ==
    IF q.op = "get_last_price" THEN OptResult(Some(sd.last_price))
    ELSE IF q.op = "get_daily_volume" THEN OptResult(Some(sd.daily_volume))
    ELSE IF RangePanics(sd.price_history, q.start_time, q.end_time) THEN Panicked
    ELSE VecResult(BTreeRange(sd.price_history, q.start_time, q.end_time))

QueryValue(sd, q) ==
    IF q.op = "get_last_price"
    THEN OptResult(IF sd.present THEN Some(sd.last_price) ELSE None)
    ELSE IF q.op = "get_daily_volume"
    THEN OptResult(IF sd.present THEN Some(sd.daily_volume) ELSE None)
    ELSE IF ~sd.present THEN VecResult(<< >>)
    ELSE IF RangePanics(sd.price_history, q.start_time, q.end_time) THEN Panicked
    ELSE VecResult(BTreeRange(sd.price_history, q.start_time, q.end_time))

\* the body of a query under the guard; a panic unwinds through the guard,
\* which poisons the Mutex
QueryReadInserting(r) ==
    /\ rpc[r] = "locked"
    /\ LET sd == IF symbol_data[rq[r].symbol].present
                 THEN symbol_data[rq[r].symbol] ELSE FreshData
           v == QueryValue(sd, rq[r])
       IN  /\ symbol_data' = [symbol_data EXCEPT ![rq[r].symbol] = sd]
           /\ rres' = [rres EXCEPT ![r] = v]
           /\ IF v.kind = "panic"
              THEN /\ poisoned' = TRUE
                   /\ lock' = Free
                   /\ rpc' = [rpc EXCEPT ![r] = "idle"]
              ELSE /\ rpc' = [rpc EXCEPT ![r] = "computed"]
                   /\ UNCHANGED << poisoned, lock >>
    /\ UNCHANGED << alive, buffer_size, queue, ppc, pmsg, wpc, wmsg,
                    message_count, rq, accepted, taken, applied, rprev >>

QueryRead(r) ==
    /\ rpc[r] = "locked"
    /\ LET v == QueryValue(symbol_data[rq[r].symbol], rq[r])
       IN  /\ rres' = [rres EXCEPT ![r] = v]
           /\ IF v.kind = "panic"
              THEN /\ poisoned' = TRUE
                   /\ lock' = Free
                   /\ rpc' = [rpc EXCEPT ![r] = "idle"]
              ELSE /\ rpc' = [rpc EXCEPT ![r] = "computed"]
                   /\ UNCHANGED << poisoned, lock >>
    /\ UNCHANGED << alive, buffer_size, queue, ppc, pmsg, wpc, wmsg, symbol_data,
                    message_count, rq, accepted, taken, applied, rprev >>

\* the query returns; the guard drops
QueryReturn(r) ==
    /\ rpc[r] = "computed"
    /\ lock' = Free
    /\ rpc' = [rpc EXCEPT ![r] = "idle"]
    /\ rq' = [rq EXCEPT ![r] = NoQuery]
    /\ rres' = [rres EXCEPT ![r] = NoResult]
    /\ UNCHANGED << alive, buffer_size, queue, ppc, pmsg, wpc, wmsg, poisoned,
                    symbol_data, message_count, accepted, taken, applied, rprev >>

---------------------------------------------------------------------------
(* The MarketDataProcessor is dropped: no call on it is in progress.  Its  *)
(* Sender and Receiver go; the channel and its content live on only while  *)
(* a worker holds a Receiver clone.                                        *)

DropProcessor ==
    /\ alive
    /\ \A p \in Producers : ppc[p] = "idle"
    /\ \A r \in Readers : rpc[r] = "idle"
    /\ alive' = FALSE
    /\ queue' = IF \E w \in Workers : Running(w) THEN queue ELSE << >>
    /\ UNCHANGED << buffer_size, ppc, pmsg, wpc, wmsg, lock, poisoned, symbol_data,
                    message_count, rpc, rq, rres, accepted, taken, applied, rprev >>

---------------------------------------------------------------------------
FirstWorker == "w1"

Next ==
    \/ \E p \in Producers, m \in Messages : SubmitCall(p, m)
    \/ \E p \in Producers : SendReturn(p)
    \/ Start(FirstWorker)
    \/ \E w \in Workers : Recv(w)
    \/ \E w \in Workers : Exit(w)
    \/ \E w \in Workers : Process(w)
    \/ \E w \in Workers : ApplyScalars(w)
    \/ \E w \in Workers : ApplyPrice(w)
    \/ \E w \in Workers : ApplyVolume(w)
    \/ \E w \in Workers : Count(w)
    \/ \E r \in Readers, q \in Queries : QueryCall(r, q)
    \/ \E r \in Readers : QueryRead(r)
    \/ \E r \in Readers : QueryReturn(r)
    \/ DropProcessor

Spec == Init /\ [][Next]_vars

\* start_processing called a second time: a second thread with its own receiver clone
SecondWorker == "w2"

StartAgain ==
    /\ wpc[FirstWorker] # "unstarted"
    /\ Start(SecondWorker)

\* the queries issued while two workers run
ProbeQueries ==
    { q \in Queries :
        /\ q.symbol = "X"
        /\ q.op \in {"get_last_price", "get_price_history"}
        /\ q.op = "get_price_history" => q.start_time # q.end_time }

NextMulti ==
    \/ \E p \in Producers, m \in Messages : SubmitCall(p, m)
    \/ \E p \in Producers : SendReturn(p)
    \/ Start(FirstWorker)
    \/ StartAgain
    \/ \E w \in Workers : Recv(w)
    \/ \E w \in Workers : Process(w)
    \/ \E w \in Workers : ApplyScalars(w)
    \/ \E w \in Workers : ApplyPrice(w)
    \/ \E w \in Workers : ApplyVolume(w)
    \/ \E w \in Workers : Count(w)
    \/ \E r \in Readers, q \in ProbeQueries : QueryCall(r, q)
    \/ \E r \in Readers : QueryRead(r)
    \/ \E r \in Readers : QueryReturn(r)

SpecMulti == Init /\ [][NextMulti]_vars

---------------------------------------------------------------------------
(* A caller that repeats a query: it keeps the arguments and the result of *)
(* the call that returned, issues the same call again, and submits nothing *)
(* once a call has returned.                                               *)

\* the query returns to the caller, which keeps its result; the guard drops
QueryReturnKeep(r) ==
    /\ rpc[r] = "computed"
    /\ lock' = Free
    /\ rpc' = [rpc EXCEPT ![r] = "idle"]
    /\ rprev' = [rprev EXCEPT ![r] = [q |-> rq[r], res |-> rres[r], seen |-> Len(applied)]]
    /\ rq' = [rq EXCEPT ![r] = NoQuery]
    /\ rres' = [rres EXCEPT ![r] = NoResult]
    /\ UNCHANGED << alive, buffer_size, queue, ppc, pmsg, wpc, wmsg, poisoned,
                    symbol_data, message_count, accepted, taken, applied >>

QueryFirst(r, q) ==
    /\ rprev[r] = NoPrev
    /\ QueryCall(r, q)

QueryAgain(r) ==
    /\ rprev[r] # NoPrev
    /\ QueryCall(r, rprev[r].q)

SubmitBefore(p, m) ==
    /\ \A r \in Readers : rprev[r] = NoPrev
    /\ SubmitCall(p, m)

\* the queries that are repeated
RepeatQueries ==
    { q \in Queries :
        /\ q.symbol = "X"
        /\ q.op = "get_price_history" => q.start_time # q.end_time }

NextRepeat ==
    \/ \E p \in Producers, m \in Messages : SubmitBefore(p, m)
    \/ \E p \in Producers : SendReturn(p)
    \/ Start(FirstWorker)
    \/ \E w \in Workers : Recv(w)
    \/ \E w \in Workers : Process(w)
    \/ \E w \in Workers : ApplyScalars(w)
    \/ \E w \in Workers : ApplyPrice(w)
    \/ \E w \in Workers : ApplyVolume(w)
    \/ \E w \in Workers : Count(w)
    \/ \E r \in Readers, q \in RepeatQueries : QueryFirst(r, q)
    \/ \E r \in Readers : QueryAgain(r)
    \/ \E r \in Readers : QueryRead(r)
    \/ \E r \in Readers : QueryReturnKeep(r)

SpecRepeat == Init /\ [][NextRepeat]_vars

---------------------------------------------------------------------------
(* Vocabulary of the properties *)

WellFormed(m) == m.message_type = "Trade" /\ m.price # None /\ m.quantity # None

TradesOf(seq, s) == SelectSeq(seq, LAMBDA m : WellFormed(m) /\ m.symbol = s)

IsPrefix(a, b) == Len(a) <= Len(b) /\ SubSeq(b, 1, Len(a)) = a

LastOf(seq) == seq[Len(seq)]

\* price of the last trade of ts that falls in bucket b
LastPriceIn(ts, b) ==
    LET idx == {i \in 1..Len(ts) : ts[i].timestamp_ns \div 1000000 = b}
        j == CHOOSE i \in idx : \A k \in idx : k <= i
    IN  ts[j].price[1]

BucketsOf(ts) == {ts[i].timestamp_ns \div 1000000 : i \in 1..Len(ts)}

\* a worker is inside the critical section of process_message
InCritical(w) == wpc[w] \in {"locked", "scalars", "price"}

\* quantities added exactly, and added in order as f64 values
RECURSIVE ExactSum(_)
ExactSum(ts) == IF ts = << >> THEN 0 ELSE ExactSum(SubSeq(ts, 1, Len(ts) - 1)) + LastOf(ts).quantity[1]

RECURSIVE F64Sum(_)
F64Sum(ts) ==
    IF ts = << >> THEN 0
    ELSE F64Add(F64Sum(SubSeq(ts, 1, Len(ts) - 1)), LastOf(ts).quantity[1])

\* the store after the trades of seq, each applied as one indivisible update
WholeTrade(st, m) ==
    LET old == IF st[m.symbol].present THEN st[m.symbol] ELSE FreshData
        b == m.timestamp_ns \div 1000000
    IN  [st EXCEPT ![m.symbol] =
            [present |-> TRUE,
             last_price |-> m.price[1],
             daily_volume |-> F64Add(old.daily_volume, m.quantity[1]),
             last_update_time |-> m.timestamp_ns,
             price_history |-> MapInsert(old.price_history, b, m.price[1]),
             volume_history |-> MapInsert(old.volume_history, b,
                 F64Add(EntryOrZero(old.volume_history, b), m.quantity[1]))]]

RECURSIVE StoreAfter(_)
StoreAfter(seq) ==
    IF seq = << >> THEN [s \in Symbols |-> NoData]
    ELSE WholeTrade(StoreAfter(SubSeq(seq, 1, Len(seq) - 1)), LastOf(seq))

---------------------------------------------------------------------------
(* C1: with start_processing called once, messages are taken and applied   *)
(* in the order submit_message accepted them; once every accepted message  *)
(* has been processed, each symbol's last_price is the price of its        *)
(* last-accepted well-formed trade and price_history[b] is the price of    *)
(* its last-accepted well-formed trade in bucket b.                        *)
C1_FifoApplication ==
    /\ IsPrefix(taken, accepted)
    /\ IsPrefix(applied, SelectSeq(accepted, WellFormed))
    /\ message_count = Len(accepted) =>
         \A s \in Symbols :
            LET ts == TradesOf(accepted, s)
                sd == symbol_data[s]
            IN  ts # << >> =>
                  /\ sd.present
                  /\ sd.last_price = LastOf(ts).price[1]
                  /\ DOMAIN sd.price_history = BucketsOf(ts)
                  /\ \A b \in BucketsOf(ts) : sd.price_history[b] = LastPriceIn(ts, b)

\* two trades of one symbol in one bucket, at different prices, both processed
C1_Witness ==
    /\ message_count = 2
    /\ Len(accepted) = 2
    /\ WellFormed(accepted[1]) /\ WellFormed(accepted[2])
    /\ accepted[1].symbol = accepted[2].symbol
    /\ accepted[1].timestamp_ns \div 1000000 = accepted[2].timestamp_ns \div 1000000
    /\ accepted[1].timestamp_ns > accepted[2].timestamp_ns
    /\ accepted[1].price # accepted[2].price

(* C2 (as claimed): a submit_message on a full queue that no worker drains  *)
(* returns QueueFull at once; no call is ever left blocked inside send().  *)
C2_FailFastWhenFull ==
    \A p \in Producers :
        ~(ppc[p] = "send" /\ Len(queue) = buffer_size /\ \A w \in Workers : ~Running(w))

(* C3 (as claimed): whenever no trade is half applied, daily_volume of a    *)
(* symbol is the exact sum of the quantities of its applied trades.        *)
C3_ExactSum ==
    (\A w \in Workers : ~InCritical(w)) =>
        \A s \in Symbols :
            symbol_data[s].present =>
                symbol_data[s].daily_volume = ExactSum(TradesOf(applied, s))

(* C3 (amended): whenever no trade is half applied, daily_volume of a       *)
(* symbol is the f64 sum of the quantities of its applied trades, added    *)
(* one at a time in application order (each addition rounded); and a step  *)
(* lowers daily_volume only when it applies a negative quantity.           *)
C3_VolumeIsF64Sum ==
    /\ [] ((\A w \in Workers : ~InCritical(w)) =>
              \A s \in Symbols :
                 /\ symbol_data[s].present <=> TradesOf(applied, s) # << >>
                 /\ symbol_data[s].daily_volume = F64Sum(TradesOf(applied, s)))
    /\ [][ \A s \in Symbols :
              \/ symbol_data'[s].daily_volume >= symbol_data[s].daily_volume
              \/ \E w \in Workers : /\ wpc[w] = "locked"
                                    /\ wmsg[w].symbol = s
                                    /\ wmsg[w].quantity[1] < 0 ]_vars

\* two trades of one symbol applied, the second addition rounded
C3_Witness ==
    /\ \A w \in Workers : ~InCritical(w)
    /\ \E s \in Symbols :
          /\ Len(TradesOf(applied, s)) = 2
          /\ symbol_data[s].daily_volume = F64Sum(TradesOf(applied, s))
          /\ F64Sum(TradesOf(applied, s)) # ExactSum(TradesOf(applied, s))

(* C4: while a reader holds the store (from lock() to the return of the    *)
(* query) the whole map is the result of the fully applied trades, each    *)
(* applied in one piece: no field of any symbol is ahead of another.       *)
C4_NoTornRead ==
    \A r \in Readers :
        rpc[r] \in {"locked", "computed"} =>
            /\ symbol_data = StoreAfter(applied)
            /\ rpc[r] = "computed" =>
                  rres[r] = QueryValue(StoreAfter(applied)[rq[r].symbol], rq[r])

\* a reader is inside a query while a worker waits for the Mutex with a trade
C4_Witness ==
    \E r \in Readers, w \in Workers :
        /\ rpc[r] = "computed"
        /\ wpc[w] = "process"
        /\ WellFormed(wmsg[w])
        /\ wmsg[w].symbol = rq[r].symbol
        /\ applied # << >>

(* C5: a worker that processes an Add, Modify or Cancel, or a Trade whose  *)
(* price or quantity is absent, never takes the Mutex and changes nothing  *)
(* in the map, and its next step adds exactly one to message_count.        *)
C5_SkipLeavesStore ==
    [][ \A w \in Workers :
           (wpc[w] \in {"process", "count"} /\ ~WellFormed(wmsg[w]) /\ wpc'[w] # wpc[w]) =>
               /\ symbol_data' = symbol_data
               /\ lock' = lock
               /\ wpc[w] = "process" => (wpc'[w] = "count" /\ message_count' = message_count)
               /\ wpc[w] = "count" => (wpc'[w] = "recv" /\ message_count' = message_count + 1)
      ]_vars

\* a Trade without quantity and another skipped message were counted; the map is empty
C5_Witness ==
    /\ message_count = 2
    /\ \A s \in Symbols : ~symbol_data[s].present
    /\ \E i \in 1..Len(accepted) :
          accepted[i].message_type = "Trade" /\ accepted[i].quantity = None
    /\ \E i \in 1..Len(accepted) : accepted[i].message_type # "Trade"

(* C6 (as claimed): a worker ends its loop only when the queue is closed   *)
(* and empty, and once the processor is dropped and the worker has         *)
(* terminated every accepted message was taken, every accepted well-formed *)
(* trade was applied, in order, and every message was counted.             *)
C6_GracefulShutdown ==
    \A w \in Workers :
        /\ wpc[w] = "done" => (~alive /\ queue = << >>)
        /\ (~alive /\ wpc[w] \in {"done", "panicked"}) =>
              /\ taken = accepted
              /\ applied = SelectSeq(accepted, WellFormed)
              /\ message_count = Len(accepted)

(* C7: a get_price_history(symbol, start, end) on a seen symbol with       *)
(* start <= end returns the pairs (b, price_history[b]) with               *)
(* start <= b <= end, each once, in ascending order of b.                  *)
C7_RangeCorrect ==
    \A r \in Readers :
        LET q == rq[r]
            ph == symbol_data[q.symbol].price_history
            v == rres[r].vec
        IN  ( /\ rpc[r] = "computed"
              /\ q.op = "get_price_history"
              /\ symbol_data[q.symbol].present
              /\ q.start_time <= q.end_time ) =>
                /\ rres[r].kind = "vec"
                /\ \A i \in 1..(Len(v) - 1) : v[i][1] < v[i + 1][1]
                /\ {v[i] : i \in 1..Len(v)} =
                       {<<b, ph[b]>> : b \in {k \in DOMAIN ph :
                                                q.start_time <= k /\ k <= q.end_time}}

\* a range whose two bounds are both buckets of the symbol, returned in order
C7_Witness ==
    \E r \in Readers :
        /\ rpc[r] = "computed"
        /\ rq[r].op = "get_price_history"
        /\ rq[r].start_time < rq[r].end_time
        /\ Len(rres[r].vec) = 2
        /\ rres[r].vec[1][1] = rq[r].start_time
        /\ rres[r].vec[2][1] = rq[r].end_time

(* C8 (as claimed): no query panics, whatever its bounds; the Mutex is     *)
(* never poisoned and no worker dies on it.                                *)
C8_NoQueryPanics ==
    /\ ~poisoned
    /\ \A r \in Readers : rres[r].kind # "panic"
    /\ \A w \in Workers : wpc[w] # "panicked"

(* C9: a symbol is in the map only once a well-formed trade of it is being *)
(* or has been applied, and it stays; a query that returns for a symbol    *)
(* with no applied well-formed trade returns None (get_last_price,         *)
(* get_daily_volume) or the empty sequence (get_price_history).            *)
C9_UnseenSymbol ==
    /\ [] (\A s \in Symbols :
              /\ TradesOf(applied, s) # << >> => symbol_data[s].present
              /\ symbol_data[s].present =>
                    \/ TradesOf(applied, s) # << >>
                    \/ \E w \in Workers :
                          InCritical(w) /\ WellFormed(wmsg[w]) /\ wmsg[w].symbol = s)
    /\ [] (\A r \in Readers :
              (rpc[r] = "computed" /\ TradesOf(applied, rq[r].symbol) = << >>) =>
                  rres[r] = IF rq[r].op = "get_price_history"
                            THEN VecResult(<< >>) ELSE OptResult(None))
    /\ [][ \A s \in Symbols : symbol_data[s].present => symbol_data'[s].present ]_vars

\* get_last_price answers None for a symbol whose only messages were skipped or are
\* still buffered, while the other symbol is in the map
C9_Witness ==
    \E r \in Readers :
        /\ rpc[r] = "computed"
        /\ rq[r].op = "get_last_price"
        /\ rres[r].opt = None
        /\ \E i \in 1..Len(accepted) : accepted[i].symbol = rq[r].symbol
        /\ \E s \in Symbols : symbol_data[s].present

(* C10 (as claimed): message_count never exceeds the number of accepted    *)
(* messages, every message taken from the queue is either still in a       *)
(* worker's hands or counted exactly once, and with the queue empty and    *)
(* the worker waiting for input the count is the number of accepted        *)
(* messages.                                                               *)
C10_CounterCountsTaken ==
    /\ message_count <= Len(accepted)
    /\ Len(taken) = message_count +
           Cardinality({w \in Workers :
                           wpc[w] \in {"process", "locked", "scalars", "price", "count"}})
    /\ ( /\ queue = << >>
         /\ \E w \in Workers : wpc[w] = "recv"
         /\ \A w \in Workers : wpc[w] \in {"unstarted", "recv"} ) =>
            message_count = Len(accepted)

(* C11 (as claimed): once the consumer side is torn down (a worker has     *)
(* terminated and none is running) the channel has no receiver left, so    *)
(* send() returns its error at once: no submission is accepted and no      *)
(* submit_message call is blocked.                                         *)
C11_QueueClosedAfterTeardown ==
    ( /\ \E w \in Workers : wpc[w] \in {"done", "panicked"}
      /\ \A w \in Workers : ~Running(w) ) =>
        /\ ~ReceiverExists
        /\ \A p \in Producers : ppc[p] # "send"

(* C13: at most one thread, worker or reader, is inside the critical       *)
(* section of the store at any time, and it is the holder of the Mutex;    *)
(* this also holds with two workers started.                               *)
C13_SingleSerializationPoint ==
    LET inside == {w \in Workers : InCritical(w)} \cup
                  {r \in Readers : rpc[r] \in {"locked", "computed"}}
    IN  /\ Cardinality(inside) <= 1
        /\ \A t \in inside : lock = t
        /\ inside = {} => lock = Free

\* one worker is applying a trade while the other holds a trade of another symbol
C13_Witness ==
    \E w \in Workers, v \in Workers :
        /\ w # v
        /\ InCritical(w)
        /\ wpc[v] = "process"
        /\ WellFormed(wmsg[v])
        /\ wmsg[v].symbol # wmsg[w].symbol

(* C14: the channel never buffers more than buffer_size messages: the      *)
(* messages accepted and not yet taken by a worker number at most          *)
(* buffer_size, and buffer_size keeps the value given to new().            *)
C14_QueueBounded ==
    /\ [] ( /\ Len(queue) <= buffer_size
            /\ Len(accepted) - Len(taken) <= buffer_size )
    /\ [][ buffer_size' = buffer_size ]_vars

\* the channel is full and a further submit_message is held back
C14_Witness ==
    /\ Len(queue) = buffer_size
    /\ Len(accepted) - Len(taken) = buffer_size
    /\ \E p \in Producers : ppc[p] = "send"

(* C15 (as claimed): in every reachable state every symbol in the map has  *)
(* the same, non-empty set of bucket keys in price_history and             *)
(* volume_history.                                                         *)
C15_KeysEqualEverywhere ==
    \A s \in Symbols :
        symbol_data[s].present =>
            /\ DOMAIN symbol_data[s].price_history = DOMAIN symbol_data[s].volume_history
            /\ DOMAIN symbol_data[s].price_history # {}

(* C15 (amended): whenever no worker is inside the critical section (so in *)
(* every state a query can see) every symbol in the map has the same,      *)
(* non-empty set of bucket keys in price_history and volume_history; and   *)
(* no step removes a key from either history.                              *)
C15_KeysEqualOutsideCritical ==
    /\ [] ( (\A w \in Workers : ~InCritical(w)) =>
               \A s \in Symbols :
                  symbol_data[s].present =>
                     /\ DOMAIN symbol_data[s].price_history =
                            DOMAIN symbol_data[s].volume_history
                     /\ DOMAIN symbol_data[s].price_history # {} )
    /\ [][ \A s \in Symbols :
              /\ DOMAIN symbol_data[s].price_history \subseteq
                     DOMAIN symbol_data'[s].price_history
              /\ DOMAIN symbol_data[s].volume_history \subseteq
                     DOMAIN symbol_data'[s].volume_history ]_vars

\* a symbol with two buckets in both histories, no update in progress
C15_Witness ==
    /\ \A w \in Workers : ~InCritical(w)
    /\ \E s \in Symbols :
          /\ Cardinality(DOMAIN symbol_data[s].price_history) = 2
          /\ DOMAIN symbol_data[s].volume_history = DOMAIN symbol_data[s].price_history

\* the trades of ts whose timestamp falls in millisecond bucket b
InBucket(ts, b) == SelectSeq(ts, LAMBDA m : m.timestamp_ns \div 1000000 = b)

(* C16 (as claimed): for every symbol and bucket b, volume_history[b] is   *)
(* the sum of the quantities of the applied trades of that symbol whose    *)
(* timestamp falls in b.                                                   *)
C16_BucketExactSum ==
    (\A w \in Workers : ~InCritical(w)) =>
        \A s \in Symbols :
            \A b \in DOMAIN symbol_data[s].volume_history :
                symbol_data[s].volume_history[b] =
                    ExactSum(InBucket(TradesOf(applied, s), b))

(* C16 (amended): for every symbol and bucket b, volume_history[b] is the  *)
(* f64 running sum, started at 0 and taken in application order, of the    *)
(* quantities of the applied trades of that symbol in b (a later trade     *)
(* adds to the bucket and never overwrites it), while price_history[b] is  *)
(* the price of the last applied one of them.                              *)
C16_BucketF64Sum ==
    (\A w \in Workers : ~InCritical(w)) =>
        \A s \in Symbols :
            LET ts == TradesOf(applied, s)
            IN  /\ DOMAIN symbol_data[s].volume_history = BucketsOf(ts)
                /\ \A b \in BucketsOf(ts) :
                      /\ symbol_data[s].volume_history[b] = F64Sum(InBucket(ts, b))
                      /\ symbol_data[s].price_history[b] = LastPriceIn(ts, b)

\* two trades of one symbol applied in one bucket: the volume accumulated
\* and differs from the later quantity, the price is the later price
C16_Witness ==
    /\ \A w \in Workers : ~InCritical(w)
    /\ \E s \in Symbols :
          LET ts == TradesOf(applied, s)
          IN  \E b \in BucketsOf(ts) :
                 /\ Len(InBucket(ts, b)) = 2
                 /\ symbol_data[s].volume_history[b] # LastOf(InBucket(ts, b)).quantity[1]
                 /\ symbol_data[s].price_history[b] = LastOf(InBucket(ts, b)).price[1]
                 /\ symbol_data[s].price_history[b] # InBucket(ts, b)[1].price[1]

(* C17: for every symbol, last_update_time is the timestamp_ns of the most *)
(* recently applied well-formed trade and last_price is that trade's       *)
(* price, whatever the order of the timestamps; events that are skipped    *)
(* are not among the applied trades and leave both unchanged.              *)
C17_UpdateTimeFollowsApplication ==
    (\A w \in Workers : ~InCritical(w)) =>
        \A s \in Symbols :
            LET ts == TradesOf(applied, s)
            IN  IF ts = << >> THEN ~symbol_data[s].present
                ELSE /\ symbol_data[s].present
                     /\ symbol_data[s].last_update_time = LastOf(ts).timestamp_ns
                     /\ symbol_data[s].last_price = LastOf(ts).price[1]

\* a trade with a smaller timestamp applied after one with a larger one
C17_Witness ==
    /\ \A w \in Workers : ~InCritical(w)
    /\ \E s \in Symbols :
          LET ts == TradesOf(applied, s)
          IN  /\ Len(ts) = 2
              /\ ts[2].timestamp_ns < ts[1].timestamp_ns
              /\ symbol_data[s].last_update_time = ts[2].timestamp_ns
              /\ symbol_data[s].last_price = ts[2].price[1]
              /\ symbol_data[s].last_price # ts[1].price[1]

RECURSIVE SumOfValues(_)
SumOfValues(m) ==
    IF DOMAIN m = {} THEN 0
    ELSE LET k == CHOOSE x \in DOMAIN m : TRUE
         IN  m[k] + SumOfValues([y \in DOMAIN m \ {k} |-> m[y]])

RECURSIVE AbsSum(_)
AbsSum(ts) ==
    IF ts = << >> THEN 0
    ELSE LET q == LastOf(ts).quantity[1]
         IN  AbsSum(SubSeq(ts, 1, Len(ts) - 1)) + (IF q < 0 THEN -q ELSE q)

(* C18 (as claimed): whenever the store lock is free, for every symbol in  *)
(* the store daily_volume is the sum of the values of volume_history and   *)
(* last_price is price_history[last_update_time / 1_000_000].              *)
C18_DailyIsSumOfBuckets ==
    lock = Free =>
        \A s \in Symbols :
            symbol_data[s].present =>
                /\ symbol_data[s].daily_volume = SumOfValues(symbol_data[s].volume_history)
                /\ symbol_data[s].last_update_time \div 1000000
                       \in DOMAIN symbol_data[s].price_history
                /\ symbol_data[s].last_price =
                       symbol_data[s].price_history[symbol_data[s].last_update_time \div 1000000]

(* C18 (amended): whenever the store lock is free, for every symbol in the *)
(* store last_price is price_history[last_update_time / 1_000_000], and    *)
(* daily_volume is the sum of the values of volume_history provided the    *)
(* applied quantities are integers whose absolute values add up to at most *)
(* 2^(significand bits), so that no addition rounds.                       *)
C18_DailyIsSumWhenExact ==
    lock = Free =>
        \A s \in Symbols :
            symbol_data[s].present =>
                /\ symbol_data[s].last_update_time \div 1000000
                       \in DOMAIN symbol_data[s].price_history
                /\ symbol_data[s].last_price =
                       symbol_data[s].price_history[symbol_data[s].last_update_time \div 1000000]
                /\ AbsSum(TradesOf(applied, s)) <= Pow2(MantBits) =>
                       symbol_data[s].daily_volume =
                           SumOfValues(symbol_data[s].volume_history)

\* two trades in two buckets, applied without rounding, the lock free
C18_Witness ==
    /\ lock = Free
    /\ \E s \in Symbols :
          /\ symbol_data[s].present
          /\ Cardinality(DOMAIN symbol_data[s].volume_history) = 2
          /\ AbsSum(TradesOf(applied, s)) <= Pow2(MantBits)
          /\ symbol_data[s].daily_volume = 2

(* C19: with a single worker the counter is incremented only after the     *)
(* event's store effects are complete and the lock released, so when the   *)
(* counter is n the well-formed trades among the first n accepted events   *)
(* are all applied and the store a query can lock holds their effects; the *)
(* number of events taken exceeds the counter by at most 1.                *)
C19_CountImpliesVisibility ==
    LET firstN == SelectSeq(SubSeq(accepted, 1, message_count), WellFormed)
    IN  /\ message_count <= Len(taken)
        /\ Len(taken) <= message_count + 1
        /\ IsPrefix(firstN, applied)
        /\ Len(applied) <= Len(firstN) + 1
        /\ \A w \in Workers :
              wpc[w] = "count" =>
                  /\ lock # w
                  /\ WellFormed(wmsg[w]) => applied = Append(firstN, wmsg[w])
        /\ (\A w \in Workers : ~InCritical(w)) => symbol_data = StoreAfter(applied)

\* the counter is 1 for an applied trade while the worker is already
\* half-way through the second event
C19_Witness ==
    /\ message_count = 1
    /\ Len(taken) = 2
    /\ WellFormed(accepted[1])
    /\ applied = << accepted[1] >>
    /\ \E w \in Workers : wpc[w] = "price"

(* C20 (as claimed): with start_processing called twice, once both workers *)
(* are idle or gone and the queue is empty every accepted event has been   *)
(* processed exactly once: the counter is the number of accepted events    *)
(* and every symbol's daily_volume is the value one worker would have      *)
(* produced from the accepted trades.                                      *)
C20_TwoWorkersSameTotals ==
    ( /\ \A w \in Workers : wpc[w] \in {"recv", "panicked"}
      /\ queue = << >>
      /\ \A p \in Producers : ppc[p] = "idle" ) =>
        /\ message_count = Len(accepted)
        /\ Len(applied) = Len(SelectSeq(accepted, WellFormed))
        /\ \A s \in Symbols :
              LET ts == TradesOf(accepted, s)
              IN  IF ts = << >> THEN ~symbol_data[s].present
                  ELSE /\ symbol_data[s].present
                       /\ symbol_data[s].daily_volume = F64Sum(ts)

====
